---- MODULE Spec2Model ----
(***************************************************************************)
(* Supervision-and-notification control loop of hoyobot's monitor.         *)
(*                                                                         *)
(* The program is a single-threaded Node.js process: every callback (HTTP  *)
(* handler, timer, child 'exit'/'error' event, 'git pull' completion) runs *)
(* to completion, so each one is an atomic action here.  Time is the value *)
(* of Date.now() in milliseconds.  A timer fires when the clock reaches    *)
(* its due time; the clock never runs past a pending timer.                *)
(*                                                                         *)
(* The handlers are written as operators over a record S holding the       *)
(* mutable program state, so that a handler which calls notifyAll and then *)
(* startBot is the composition of the two operators, as in the source.     *)
(***************************************************************************)
EXTENDS Integers, Sequences, FiniteSets, TLC

VARIABLES
    listening,      \* app.listen callback has run
    isUp,           \* monitor.js:43
    botProcess,     \* monitor.js:43, index into procs, 0 = undefined
    lastStartTime,  \* monitor.js:43, 0 = undefined
    lastExitTime,   \* monitor.js:43, 0 = undefined
    autoRestart,    \* monitor.js:43
    lastNotify,     \* monitor.js:44
    now,            \* Date.now()
    timers,         \* pending setTimeout / setInterval callbacks, by due time
    procs,          \* every child ever spawned, in spawn order
    pulls,          \* 'git pull' commands in flight, by kind
    inputs,         \* commands accepted, requests made without valid
                    \* credentials, dashboard views and idle periods so far
    burst,          \* number of the current burst of restart commands
    sentLog,        \* every notification that passed the throttle gate
    calls,          \* notifyAll calls made by the last callback
    event,          \* which callback ran last, and on what input
    platforms,      \* config.platforms, monitor.js:14
    fanouts,        \* notifyAll invocations that passed the throttle gate
    deliveries,     \* every axios.post a fan-out has issued
    crashed         \* an uncaught exception has terminated the monitor

vars == <<listening, isUp, botProcess, lastStartTime, lastExitTime,
          autoRestart, lastNotify, now, timers, procs, pulls, inputs,
          burst, sentLog, calls, event, platforms, fanouts, deliveries,
          crashed>>

----------------------------------------------------------------------------
(* Bounds of the model *)

MaxSpawn     == 3   \* children spawned in one run
MaxInputs    == 2   \* accepted commands, requests without valid
                    \* credentials, dashboard views and idle periods in
                    \* one run
MaxPlatforms == 2   \* entries of config.platforms
MaxCalls     == 3   \* notifyAll calls and idle periods in one run of the
                    \* dispatcher

(* Program constants *)

THROTTLE_MINUTES     == 10
UPDATE_INTERVAL_DAYS == 1
RestartDelay         == 1000
AutoRestartDelay     == 5000

ThrottleWindow == THROTTLE_MINUTES * 60000
UpdateInterval == UPDATE_INTERVAL_DAYS * 86400 * 1000

(* Date.now() when the monitor is launched: any value of the epoch clock,  *)
(* which is far more than one throttle window after 0.                     *)
StartOfRun == 2 * ThrottleWindow

(* Idle periods between events.  After the 5 seconds of an auto-restart    *)
(* they bring the clock 5 and 6 minutes further; the third idle period is  *)
(* the one until the next scheduled update check.                          *)
Jumps == {300000 - AutoRestartDelay, 360000 - AutoRestartDelay}

Kinds == {"UP", "DOWN", "RESOURCE"}

(* The status kinds the callbacks of the monitor pass to notifyAll *)
CalledKinds == {"UP", "DOWN"}

(* Idle periods between two calls of notifyAll: one millisecond short of   *)
(* the throttle window, and the window                                     *)
NotifyJumps == {ThrottleWindow - 1, ThrottleWindow}

(* (code, signal) pairs a child can exit with; -1 stands for null *)
ExitInputs == { [code |-> 1,  signal |-> "null"],
                [code |-> -1, signal |-> "SIGTERM"] }

PullResults == {"error", "uptodate", "changed"}

(* What os.freemem() / os.totalmem() reads when the dashboard is rendered: *)
(* less than a tenth free, or more                                         *)
MemoryReadings == {"low", "ok"}

(* p.type of an entry of config.platforms: the two kinds notifyAll posts   *)
(* to, and any other                                                       *)
PlatformTypes == {"telegram", "webhook", "other"}

(* The values config.platforms can have; an entry without an active flag   *)
(* behaves as one whose flag is false                                      *)
Configs ==
    UNION {[1..n -> [active : BOOLEAN, type : PlatformTypes]] :
              n \in 0..MaxPlatforms}

(* err.message of the 'error' event of a child that could not be launched *)
ErrorMessages == {"spawn node ENOENT", "spawn node EACCES"}

----------------------------------------------------------------------------
(* The mutable program state as one record *)

Cur == [ isUp |-> isUp, botProcess |-> botProcess,
         lastStartTime |-> lastStartTime, lastExitTime |-> lastExitTime,
         autoRestart |-> autoRestart, lastNotify |-> lastNotify,
         timers |-> timers, procs |-> procs, pulls |-> pulls,
         inputs |-> inputs, burst |-> burst, sentLog |-> sentLog,
         calls |-> <<>>, fanouts |-> fanouts, deliveries |-> deliveries ]

Commit(S) ==
    /\ isUp' = S.isUp
    /\ botProcess' = S.botProcess
    /\ lastStartTime' = S.lastStartTime
    /\ lastExitTime' = S.lastExitTime
    /\ autoRestart' = S.autoRestart
    /\ lastNotify' = S.lastNotify
    /\ timers' = S.timers
    /\ procs' = S.procs
    /\ pulls' = S.pulls
    /\ inputs' = S.inputs
    /\ burst' = S.burst
    /\ sentLog' = S.sentLog
    /\ calls' = S.calls
    /\ fanouts' = S.fanouts
    /\ deliveries' = S.deliveries
    /\ UNCHANGED <<platforms, crashed>>

----------------------------------------------------------------------------
(* Notifications with throttle *)

(* The text of a notification: its wording and, for an exit, the code and  *)
(* signal interpolated into it                                             *)
Detail(tag) == [tag |-> tag, code |-> -1, signal |-> "null"]

(* The kinds of platform notifyAll posts to; an entry of config.platforms   *)
(* of another type is passed over                                          *)
ChannelTypes == {"telegram", "webhook"}

(* The loop over config.platforms of invocation c, entered at platform     *)
(* from with every platform except the active channels passed over         *)
deliver_IgnoreActive(S, c, from) ==
    LET rest == {i \in from..Len(platforms) :
                    platforms[i].type \in ChannelTypes}
    IN IF rest = {}
       THEN [S EXCEPT !.fanouts[c].pos = Len(platforms) + 1,
                      !.fanouts[c].settled = "fulfilled"]
       ELSE LET i == CHOOSE i \in rest : \A j \in rest : i <= j
            IN [S EXCEPT !.fanouts[c].pos = i,
                         !.deliveries = Append(@,
                             [call |-> c, channel |-> i, result |-> "pending",
                              stamp |-> S.lastNotify[S.fanouts[c].status]])]

(* The loop over config.platforms of invocation c, entered at platform     *)
(* from: platforms that are not active or of no channel type are passed    *)
(* over; at the first channel the post is issued and the function is       *)
(* suspended on it; past the last platform the promise is fulfilled        *)
deliver(S, c, from) ==
    LET rest == {i \in from..Len(platforms) :
                    platforms[i].active /\ platforms[i].type \in ChannelTypes}
    IN IF rest = {}
       THEN [S EXCEPT !.fanouts[c].pos = Len(platforms) + 1,
                      !.fanouts[c].settled = "fulfilled"]
       ELSE LET i == CHOOSE i \in rest : \A j \in rest : i <= j
            IN [S EXCEPT !.fanouts[c].pos = i,
                         !.deliveries = Append(@,
                             [call |-> c, channel |-> i, result |-> "pending",
                              stamp |-> S.lastNotify[S.fanouts[c].status]])]

(* The awaited post d fails and the rejection leaves notifyAll *)
settled_Uncaught(S, d, outcome) ==
    LET c  == S.deliveries[d].call
        S1 == [S EXCEPT !.deliveries[d].result = outcome]
    IN IF outcome = "failed"
       THEN [S1 EXCEPT !.fanouts[c].pos = Len(platforms) + 1,
                       !.fanouts[c].settled = "rejected"]
       ELSE deliver(S1, c, S.deliveries[d].channel + 1)

(* The awaited post d settles: a rejection is caught and logged, and in    *)
(* either case the loop goes on with the next platform                     *)
settled(S, d, outcome) ==
    LET c  == S.deliveries[d].call
        S1 == [S EXCEPT !.deliveries[d].result = outcome]
    IN deliver(S1, c, S.deliveries[d].channel + 1)

(* The body of notifyAll past the gate, for a call of kind status *)
fanOut(S, status) ==
    LET c == Len(S.fanouts) + 1
    IN deliver([S EXCEPT !.fanouts = Append(@, [status |-> status, at |-> now,
                                                pos |-> 0,
                                                settled |-> "pending"])],
               c, 1)

(* notifyAll with the gate closed one millisecond longer *)
notifyAll_Inclusive(S, detail, status) ==
    IF now - S.lastNotify[status] <= ThrottleWindow
    THEN [S EXCEPT !.calls = Append(@, [status |-> status, detail |-> detail,
                                         at |-> now, sent |-> FALSE])]
    ELSE fanOut([S EXCEPT !.lastNotify[status] = now,
                          !.calls = Append(@, [status |-> status,
                                               detail |-> detail,
                                               at |-> now, sent |-> TRUE]),
                          !.sentLog = Append(@, [status |-> status,
                                                 tag |-> detail.tag,
                                                 at |-> now])],
                status)

(* notifyAll stamping lastNotify before the gate, so that a dropped call   *)
(* restarts the window                                                     *)
notifyAll_Extends(S, detail, status) ==
    IF now - S.lastNotify[status] < ThrottleWindow
    THEN [S EXCEPT !.lastNotify[status] = now,
                   !.calls = Append(@, [status |-> status, detail |-> detail,
                                         at |-> now, sent |-> FALSE])]
    ELSE fanOut([S EXCEPT !.lastNotify[status] = now,
                          !.calls = Append(@, [status |-> status,
                                               detail |-> detail,
                                               at |-> now, sent |-> TRUE]),
                          !.sentLog = Append(@, [status |-> status,
                                                 tag |-> detail.tag,
                                                 at |-> now])],
                status)

(* notifyAll with a gate that looks at the distance between the two times, *)
(* whichever is the later                                                  *)
notifyAll_Distance(S, detail, status) ==
    IF /\ now - S.lastNotify[status] < ThrottleWindow
       /\ S.lastNotify[status] - now < ThrottleWindow
    THEN [S EXCEPT !.calls = Append(@, [status |-> status, detail |-> detail,
                                         at |-> now, sent |-> FALSE])]
    ELSE fanOut([S EXCEPT !.lastNotify[status] = now,
                          !.calls = Append(@, [status |-> status,
                                               detail |-> detail,
                                               at |-> now, sent |-> TRUE]),
                          !.sentLog = Append(@, [status |-> status,
                                                 tag |-> detail.tag,
                                                 at |-> now])],
                status)

notifyAll(S, detail, status) ==
    IF now - S.lastNotify[status] < ThrottleWindow
    THEN [S EXCEPT !.calls = Append(@, [status |-> status, detail |-> detail,
                                         at |-> now, sent |-> FALSE])]
    ELSE fanOut([S EXCEPT !.lastNotify[status] = now,
                          !.calls = Append(@, [status |-> status,
                                               detail |-> detail,
                                               at |-> now, sent |-> TRUE]),
                          !.sentLog = Append(@, [status |-> status,
                                                 tag |-> detail.tag,
                                                 at |-> now])],
                status)

(* The callback that scheduled a timer or spawned a child: src names it.   *)
(* For a restart command grp is the burst of commands it belongs to and up *)
(* is isUp when it was accepted; for an 'exit' handler grp is the child    *)
(* that exited                                                             *)
Origin(src, grp, up) == [src |-> src, grp |-> grp, up |-> up]

(* The timer queue is kept by due time; timers due together keep the      *)
(* order in which they were scheduled                                      *)
Insert(q, t) ==
    LET k == Cardinality({i \in 1..Len(q) : q[i].due <= t.due})
    IN [i \in 1..(Len(q) + 1) |->
           IF i <= k THEN q[i] ELSE IF i = k + 1 THEN t ELSE q[i - 1]]

setTimeout(S, fn, delay, org) ==
    LET t == [fn |-> fn, due |-> now + delay, org |-> org]
    IN [S EXCEPT !.timers = Insert(@, t)]

(* botProcess.kill('SIGTERM'): the signal is delivered to a live child;   *)
(* by remembers the callback that sent it                                  *)
kill(S, p, by) ==
    [S EXCEPT !.procs[p].state = IF @ = "running" THEN "terminating" ELSE @,
              !.procs[p].killedBy = IF @ = "" THEN by ELSE @]

----------------------------------------------------------------------------
(* Bot lifecycle *)

(* startBot that spawns the child and leaves isUp as it finds it *)
startBot_StaysDown(S, ok, org) ==
    LET id == Len(S.procs) + 1
        S1 == [S EXCEPT
                 !.procs = Append(@, [state |-> IF ok THEN "running"
                                                      ELSE "failed",
                                      org |-> org, killedBy |-> ""]),
                 !.botProcess = id,
                 !.lastStartTime = now]
    IN notifyAll(S1, Detail("Bot started"), "UP")

(* ok: whether the operating system could launch the child;               *)
(* org: the callback that called startBot                                  *)
startBot(S, ok, org) ==
    LET id == Len(S.procs) + 1
        S1 == [S EXCEPT
                 !.procs = Append(@, [state |-> IF ok THEN "running"
                                                      ELSE "failed",
                                      org |-> org, killedBy |-> ""]),
                 !.botProcess = id,
                 !.isUp = TRUE,
                 !.lastStartTime = now]
    IN notifyAll(S1, Detail("Bot started"), "UP")

(* The 'exit' handler scheduling the start whatever autoRestart is *)
onExit_AlwaysRestart(S, p, c, s) ==
    LET S1 == [S EXCEPT !.isUp = FALSE, !.lastExitTime = now]
        S2 == notifyAll(S1, [tag |-> "Exit", code |-> c, signal |-> s], "DOWN")
    IN setTimeout(S2, "startBot", AutoRestartDelay, Origin("exit", p, FALSE))

(* The 'exit' handler scheduling the start with the delay of the restart   *)
(* endpoint                                                                *)
onExit_ShortDelay(S, p, c, s) ==
    LET S1 == [S EXCEPT !.isUp = FALSE, !.lastExitTime = now]
        S2 == notifyAll(S1, [tag |-> "Exit", code |-> c, signal |-> s], "DOWN")
    IN IF S2.autoRestart
       THEN setTimeout(S2, "startBot", RestartDelay, Origin("exit", p, FALSE))
       ELSE S2

(* The 'exit' handler switching autoRestart off once it has used it *)
onExit_OneShot(S, p, c, s) ==
    LET S1 == [S EXCEPT !.isUp = FALSE, !.lastExitTime = now]
        S2 == notifyAll(S1, [tag |-> "Exit", code |-> c, signal |-> s], "DOWN")
    IN IF S2.autoRestart
       THEN [setTimeout(S2, "startBot", AutoRestartDelay,
                        Origin("exit", p, FALSE))
               EXCEPT !.autoRestart = FALSE]
       ELSE S2

(* The 'exit' handler of child p *)
onExit(S, p, c, s) ==
    LET S1 == [S EXCEPT !.isUp = FALSE, !.lastExitTime = now]
        S2 == notifyAll(S1, [tag |-> "Exit", code |-> c, signal |-> s], "DOWN")
    IN IF S2.autoRestart
       THEN setTimeout(S2, "startBot", AutoRestartDelay,
                       Origin("exit", p, FALSE))
       ELSE S2

(* The 'error' handler with the notification left out *)
onError_Silent(S, message) ==
    [S EXCEPT !.isUp = FALSE, !.lastExitTime = now]

(* The 'error' handler of a child; message is err.message *)
onError(S, message) ==
    LET S1 == [S EXCEPT !.isUp = FALSE, !.lastExitTime = now]
    IN notifyAll(S1, Detail("Error:" \o message), "DOWN")

(* exec('git pull', callback) *)
execPull(S, kind) ==
    [S EXCEPT !.pulls[kind] = @ + 1]

autoUpdate(S) == execPull(S, "auto")

manualUpdate(S) == execPull(S, "manual")

(* The callback of autoUpdate's pull with the test of the output inverted  *)
autoUpdateDone_Inverted(S, result, ok) ==
    IF result = "error" THEN S
    ELSE IF result = "uptodate"
    THEN LET S1 == notifyAll(S, Detail("Code updated"), "UP")
         IN IF S1.botProcess # 0 /\ S1.isUp
            THEN kill(S1, S1.botProcess, "update")
            ELSE startBot(S1, ok, Origin("update", S1.burst, FALSE))
    ELSE S

(* The callback of autoUpdate's pull without the notification *)
autoUpdateDone_Silent(S, result, ok) ==
    IF result = "error" THEN S
    ELSE IF result = "changed"
    THEN IF S.botProcess # 0 /\ S.isUp
         THEN kill(S, S.botProcess, "update")
         ELSE startBot(S, ok, Origin("update", S.burst, FALSE))
    ELSE S

(* The callback of autoUpdate's pull reporting a failed pull as DOWN *)
autoUpdateDone_NotifyFailure(S, result, ok) ==
    IF result = "error" THEN notifyAll(S, Detail("Update failed"), "DOWN")
    ELSE IF result = "changed"
    THEN LET S1 == notifyAll(S, Detail("Code updated"), "UP")
         IN IF S1.botProcess # 0 /\ S1.isUp
            THEN kill(S1, S1.botProcess, "update")
            ELSE startBot(S1, ok, Origin("update", S1.burst, FALSE))
    ELSE S

(* The callback of autoUpdate's pull *)
autoUpdateDone(S, result, ok) ==
    IF result = "error" THEN S
    ELSE IF result = "changed"
    THEN LET S1 == notifyAll(S, Detail("Code updated"), "UP")
         IN IF S1.botProcess # 0 /\ S1.isUp
            THEN kill(S1, S1.botProcess, "update")
            ELSE startBot(S1, ok, Origin("update", S1.burst, FALSE))
    ELSE S

(* The callback of manualUpdate's pull starting the process, when Down,   *)
(* through a timer as the restart endpoint does                            *)
manualUpdateDone_Deferred(S, result, ok) ==
    IF result = "error" THEN S
    ELSE IF result = "changed"
    THEN LET S1 == notifyAll(S, Detail("Manual update"), "UP")
         IN IF S1.botProcess # 0 /\ S1.isUp
            THEN kill(S1, S1.botProcess, "update")
            ELSE setTimeout(S1, "startBot", RestartDelay,
                            Origin("update", S1.burst, FALSE))
    ELSE S

(* The callback of manualUpdate's pull *)
manualUpdateDone(S, result, ok) ==
    IF result = "error" THEN S
    ELSE IF result = "changed"
    THEN LET S1 == notifyAll(S, Detail("Manual update"), "UP")
         IN IF S1.botProcess # 0 /\ S1.isUp
            THEN kill(S1, S1.botProcess, "update")
            ELSE startBot(S1, ok, Origin("update", S1.burst, FALSE))
    ELSE S

(* POST /control/restart behind requireAuth *)
restartHandler(S) ==
    LET S1 == IF S.botProcess # 0 /\ S.isUp THEN kill(S, S.botProcess, "restart")
              ELSE S
    IN setTimeout(S1, "startBot", RestartDelay,
                  Origin("restart", S.burst, S.isUp))

(* POST /control/autorestart *)
autorestartHandler(S, on) == [S EXCEPT !.autoRestart = on]

----------------------------------------------------------------------------
(* Helpers for the actions *)

Alive(p) == p.state \in {"running", "terminating"}

(* The operating system did launch the child *)
Launched(p) == p.state \in {"running", "terminating", "exited"}

(* A failed spawn raises 'error' on process.nextTick, ahead of every other *)
(* callback                                                                *)
ErrorPending == \E i \in 1..Len(procs) : procs[i].state = "failed"

StartTimers == {i \in 1..Len(timers) : timers[i].fn = "startBot"}

Drop(seq, i) == [j \in 1..(Len(seq) - 1) |-> IF j < i THEN seq[j] ELSE seq[j + 1]]

(* The interval timer is always pending, so the queue is never empty *)
NextDue == timers[1].due

IntervalDue ==
    LET i == CHOOSE i \in 1..Len(timers) : timers[i].fn = "autoUpdate"
    IN timers[i].due

(* GET / that warns of low memory, as getResources of part_004 does *)
dashboardHandler_Warns(S, mem) ==
    IF mem = "low" THEN notifyAll(S, Detail("Low memory"), "RESOURCE") ELSE S

(* GET / renders the state and the reading of getResources and changes     *)
(* nothing                                                                 *)
dashboardHandler(S, mem) == S

(* requireAuth answering 401 and calling next() all the same *)
rejected_Next(S) ==
    LET S1 == IF S.botProcess # 0 /\ S.isUp THEN kill(S, S.botProcess, "restart")
              ELSE S
    IN setTimeout(S1, "startBot", RestartDelay,
                  Origin("restart", S.burst, S.isUp))

(* requireAuth answers 401 and does not call next() *)
rejected(S) == S

----------------------------------------------------------------------------
Boot ==
    /\ listening = FALSE
    /\ isUp = FALSE
    /\ botProcess = 0
    /\ lastStartTime = 0
    /\ lastExitTime = 0
    /\ autoRestart = FALSE
    /\ lastNotify = [k \in Kinds |-> 0]
    /\ now = StartOfRun
    /\ timers = << [fn |-> "autoUpdate", due |-> StartOfRun + UpdateInterval,
                    org |-> Origin("interval", 0, FALSE)] >>
    /\ procs = <<>>
    /\ pulls = [auto |-> 0, manual |-> 0]
    /\ inputs = 0
    /\ burst = 0
    /\ sentLog = <<>>
    /\ calls = <<>>
    /\ event = <<"load", "">>
    /\ fanouts = <<>>
    /\ deliveries = <<>>
    /\ crashed = FALSE

(* The monitor run with no platform configured *)
Init == Boot /\ platforms = <<>>

(* app.listen callback: startBot(); autoUpdate(); *)
Listen ==
    /\ ~listening
    /\ listening' = TRUE
    /\ \E ok \in BOOLEAN :
         Commit(autoUpdate(startBot(Cur, ok, Origin("listen", 0, FALSE))))
    /\ event' = <<"listen", "">>
    /\ UNCHANGED now

(* 'exit' event of child i *)
ChildExit ==
    /\ ~ErrorPending
    /\ \E i \in 1..Len(procs), x \in ExitInputs :
         /\ Alive(procs[i])
         /\ x.signal = "SIGTERM" => procs[i].state = "terminating"
         /\ Commit(onExit([Cur EXCEPT !.procs[i].state = "exited"],
                          i, x.code, x.signal))
         /\ event' = <<"exit", x>>
    /\ UNCHANGED <<listening, now>>

(* 'error' event of child i, whose spawn failed *)
ChildError ==
    /\ \E i \in 1..Len(procs), m \in ErrorMessages :
         /\ procs[i].state = "failed"
         /\ Commit(onError([Cur EXCEPT !.procs[i].state = "errored"], m))
         /\ event' = <<"error", m>>
    /\ UNCHANGED <<listening, now>>

(* A setTimeout(startBot, ...) timer fires *)
StartTimerFires ==
    /\ ~ErrorPending
    /\ Len(procs) < MaxSpawn
    /\ \E i \in StartTimers, ok \in BOOLEAN :
         /\ timers[i].due <= now
         /\ LET t  == timers[i]
                S0 == [Cur EXCEPT !.timers = Drop(@, i),
                                  !.burst = IF t.org.src = "restart"
                                               /\ t.org.grp = @
                                            THEN @ + 1 ELSE @]
            IN Commit(startBot(S0, ok, t.org))
    /\ event' = <<"startTimer", "">>
    /\ UNCHANGED <<listening, now>>

(* The setInterval(autoUpdate, ...) timer fires and is re-armed *)
IntervalFires ==
    /\ ~ErrorPending
    /\ \E i \in 1..Len(timers) :
         /\ timers[i].fn = "autoUpdate"
         /\ timers[i].due <= now
         /\ Commit(autoUpdate([Cur EXCEPT
                   !.timers = Insert(Drop(@, i),
                                     [timers[i] EXCEPT
                                        !.due = now + UpdateInterval])]))
    /\ event' = <<"interval", "">>
    /\ UNCHANGED <<listening, now>>

(* A 'git pull' completes *)
AutoPullDone ==
    /\ ~ErrorPending
    /\ pulls.auto > 0
    /\ \E r \in PullResults, ok \in BOOLEAN :
         /\ (r = "changed" /\ ~(botProcess # 0 /\ isUp)) => Len(procs) < MaxSpawn
         /\ Commit(autoUpdateDone([Cur EXCEPT !.pulls.auto = @ - 1], r, ok))
         /\ event' = <<"autoPull", r>>
    /\ UNCHANGED <<listening, now>>

ManualPullDone ==
    /\ ~ErrorPending
    /\ pulls.manual > 0
    /\ \E r \in PullResults, ok \in BOOLEAN :
         /\ (r = "changed" /\ ~(botProcess # 0 /\ isUp)) => Len(procs) < MaxSpawn
         /\ Commit(manualUpdateDone([Cur EXCEPT !.pulls.manual = @ - 1], r, ok))
         /\ event' = <<"manualPull", r>>
    /\ UNCHANGED <<listening, now>>

(* POST /control/restart *)
Restart ==
    /\ listening /\ ~ErrorPending
    /\ inputs < MaxInputs
    /\ \E authOk \in BOOLEAN :
         IF authOk
         THEN /\ Commit(restartHandler([Cur EXCEPT !.inputs = @ + 1]))
              /\ event' = <<"restart", "">>
         ELSE /\ Commit(rejected([Cur EXCEPT !.inputs = @ + 1]))
              /\ event' = <<"restart", "401">>
    /\ UNCHANGED <<listening, now>>

(* POST /control/autorestart; the route has no requireAuth, so the        *)
(* credentials of the request are not looked at                            *)
ToggleAutoRestart ==
    /\ listening /\ ~ErrorPending
    /\ \E on \in BOOLEAN, authOk \in BOOLEAN :
         IF authOk
         THEN /\ Commit([autorestartHandler(Cur, on) EXCEPT !.calls = calls])
              /\ UNCHANGED event
         ELSE /\ inputs < MaxInputs
              /\ Commit(autorestartHandler([Cur EXCEPT !.inputs = @ + 1], on))
              /\ event' = <<"autorestart", "unauthenticated">>
    /\ UNCHANGED <<listening, now>>

(* POST /control/update *)
Update ==
    /\ listening /\ ~ErrorPending
    /\ inputs < MaxInputs
    /\ \E authOk \in BOOLEAN :
         IF authOk
         THEN /\ Commit(manualUpdate([Cur EXCEPT !.inputs = @ + 1]))
              /\ event' = <<"update", "">>
         ELSE /\ Commit(rejected([Cur EXCEPT !.inputs = @ + 1]))
              /\ event' = <<"update", "401">>
    /\ UNCHANGED <<listening, now>>

(* GET / *)
Dashboard ==
    /\ listening /\ ~ErrorPending
    /\ inputs < MaxInputs
    /\ \E mem \in MemoryReadings :
         /\ Commit(dashboardHandler([Cur EXCEPT !.inputs = @ + 1], mem))
         /\ event' = <<"dashboard", mem>>
    /\ UNCHANGED <<listening, now>>

(* Nothing happens for a while: the clock runs on, at most up to the next  *)
(* timer                                                                   *)
Idle ==
    /\ listening /\ ~ErrorPending
    /\ inputs < MaxInputs
    /\ \E d \in Jumps \cup {IntervalDue - now} :
         /\ d > 0
         /\ now + d <= NextDue
         /\ now' = now + d
    /\ Commit([Cur EXCEPT !.inputs = @ + 1])
    /\ event' = <<"none", "">>
    /\ UNCHANGED listening

(* The clock runs on to the next setTimeout timer *)
WaitForTimer ==
    /\ listening /\ ~ErrorPending
    /\ timers[1].fn = "startBot"
    /\ now < NextDue
    /\ now' = NextDue
    /\ Commit(Cur)
    /\ event' = <<"none", "">>
    /\ UNCHANGED listening

Next ==
    \/ Listen
    \/ ChildExit
    \/ ChildError
    \/ StartTimerFires
    \/ IntervalFires
    \/ AutoPullDone
    \/ ManualPullDone
    \/ Restart
    \/ ToggleAutoRestart
    \/ Update
    \/ Dashboard
    \/ Idle
    \/ WaitForTimer

Spec == Init /\ [][Next]_vars

----------------------------------------------------------------------------
(* The dispatcher on its own: notifyAll under any configuration of          *)
(* platforms, called by the callbacks of the monitor at any time with any  *)
(* status kind, its posts settling in any order with any outcome           *)

NotifyInit == Boot /\ platforms \in Configs

(* A callback calls notifyAll(detail, status) and does not await it *)
Notify ==
    /\ inputs < MaxCalls
    /\ \E status \in CalledKinds :
         /\ Commit(notifyAll([Cur EXCEPT !.inputs = @ + 1],
                             Detail("Bot Status"), status))
         /\ event' = <<"notify", status>>
    /\ UNCHANGED <<listening, now>>

(* A post of axios settles and the notifyAll awaiting it resumes *)
Settle ==
    /\ \E d \in 1..Len(deliveries), outcome \in {"ok", "failed"} :
         /\ deliveries[d].result = "pending"
         /\ Commit(settled(Cur, d, outcome))
         /\ event' = <<"settle", outcome>>
    /\ UNCHANGED <<listening, now>>

(* Nothing happens for a while *)
Elapse ==
    /\ inputs < MaxCalls
    /\ \E d \in NotifyJumps : now' = now + d
    /\ Commit([Cur EXCEPT !.inputs = @ + 1])
    /\ event' = <<"none", "">>
    /\ UNCHANGED listening

NotifyNext ==
    \/ Notify
    \/ Settle
    \/ Elapse

NotifySpec == NotifyInit /\ [][NotifyNext]_vars

----------------------------------------------------------------------------
(* Reading the record of notifications *)

(* The entries sentLog held before the j-th notifyAll call of the last    *)
(* callback                                                                *)
SentBefore(j) ==
    SubSeq(sentLog, 1,
           Len(sentLog) - Cardinality({i \in j..Len(calls) : calls[i].sent}))

(* The dispatch times of the kind of that call, before that call *)
PrevTimes(j) ==
    LET q == SentBefore(j)
    IN {q[i].at : i \in {n \in 1..Len(q) : q[n].status = calls[j].status}}

HasPrev(j) == PrevTimes(j) # {}

PrevAt(j) == CHOOSE t \in PrevTimes(j) : \A u \in PrevTimes(j) : u <= t

Elapsed(j) == calls[j].at - PrevAt(j)

(* A step in which child i is spawned *)
Spawned == Len(procs') > Len(procs)

(* A step that is the 'exit' event of a child *)
ExitStep ==
    \E i \in 1..Len(procs) : Alive(procs[i]) /\ procs'[i].state = "exited"

(* A step that is the completion of a pull of the given kind and result *)
PullStep(kind, result) ==
    /\ pulls'[kind] = pulls[kind] - 1
    /\ event' = << IF kind = "auto" THEN "autoPull" ELSE "manualPull", result >>

----------------------------------------------------------------------------
(* C1: of the restart commands of one burst accepted while the process is  *)
(* Up (all arriving before the start timers they schedule have fired), at  *)
(* most one new child is spawned.                                          *)
C1_OneSpawnPerRestartBurst ==
    \A g \in 0..burst :
        Cardinality({i \in 1..Len(procs) :
                        /\ procs[i].org = Origin("restart", g, TRUE)
                        /\ Launched(procs[i])}) <= 1

(* C2: for every status kind, a notifyAll call made less than one throttle *)
(* window after the last dispatch of that kind is dropped, a call made     *)
(* when the window has elapsed is dispatched, and so any two dispatches of *)
(* one kind are at least one window apart.                                 *)
C2_Throttle ==
    /\ \A j \in 1..Len(calls) :
          calls[j].sent <=> (HasPrev(j) => Elapsed(j) >= ThrottleWindow)
    /\ \A i, j \in 1..Len(sentLog) :
          (i < j /\ sentLog[i].status = sentLog[j].status)
              => sentLog[j].at - sentLog[i].at >= ThrottleWindow

(* A call is dispatched exactly one window after the dispatch before it,   *)
(* after a call of the same kind was dropped inside the window             *)
C2_Witness ==
    /\ event[1] = "exit"
    /\ calls[1].sent /\ HasPrev(1) /\ Elapsed(1) = ThrottleWindow
    /\ lastStartTime > PrevAt(1)

(* C3: with a window of 10 minutes and a DOWN notification dispatched at   *)
(* t, a child exit at t + 5 min dispatches no DOWN notification and a      *)
(* child exit at t + 11 min dispatches one: the dropped call does not      *)
(* extend the window.                                                      *)
C3_CrashScenario ==
    (THROTTLE_MINUTES = 10 /\ event[1] = "exit" /\ HasPrev(1)) =>
        /\ Elapsed(1) = 5 * 60000 => ~calls[1].sent
        /\ Elapsed(1) = 11 * 60000 => calls[1].sent

(* The exit at t + 11 min, of a child that the auto-restart started 5 s    *)
(* after the exit at t + 5 min                                             *)
C3_Witness ==
    /\ event[1] = "exit"
    /\ calls[1].sent /\ HasPrev(1) /\ Elapsed(1) = 11 * 60000
    /\ lastStartTime = PrevAt(1) + 5 * 60000 + AutoRestartDelay
    /\ procs[botProcess].org.src = "exit"
    /\ procs[botProcess].state = "exited"

(* C4: an update check whose pull reports no changes sends no signal,      *)
(* starts no child, leaves isUp and botProcess unchanged and calls         *)
(* notifyAll not at all.                                                   *)
C4_NoChangeNoRestart ==
    [][(PullStep("auto", "uptodate") \/ PullStep("manual", "uptodate")) =>
          /\ UNCHANGED <<isUp, botProcess, procs, timers, lastNotify, sentLog>>
          /\ calls' = <<>>]_vars

(* A pull has reported no changes while the process is Up *)
C4_Witness ==
    /\ event \in {<<"autoPull", "uptodate">>, <<"manualPull", "uptodate">>}
    /\ isUp /\ Alive(procs[botProcess])

(* C5: whenever an update check applies a change while the process is Up,  *)
(* the running child is terminated and exactly one new child is started:   *)
(* once the child that the update terminated has exited, exactly one start *)
(* has been made or is scheduled on its behalf.                            *)
C5_UpdateRestartsOnce ==
    \A i \in 1..Len(procs) :
        procs[i].killedBy = "update" =>
            /\ procs[i].state \in {"terminating", "exited"}
            /\ procs[i].state = "exited" =>
                  Cardinality({j \in 1..Len(procs) :
                                  procs[j].org = Origin("exit", i, FALSE)})
                  + Cardinality({k \in 1..Len(timers) :
                                  timers[k].org = Origin("exit", i, FALSE)}) = 1

(* A step in which an update check applies a change while the process is Up *)
UpdateAppliedWhileUp ==
    /\ PullStep("auto", "changed") \/ PullStep("manual", "changed")
    /\ botProcess # 0 /\ isUp

UpdateTag == IF event'[1] = "autoPull" THEN "Code updated" ELSE "Manual update"

(* now is less than one window after the last UP dispatch *)
UpThrottled ==
    \E i \in 1..Len(sentLog) :
        sentLog[i].status = "UP" /\ now - sentLog[i].at < ThrottleWindow

(* C6, as claimed: an update check that applies a change while the process *)
(* is Up dispatches exactly one UP notification referencing the update,    *)
(* also when the worker was started less than one throttle window before.  *)
C6_AlwaysOneUpdateNotice ==
    [][UpdateAppliedWhileUp =>
          sentLog' = Append(sentLog, [status |-> "UP", tag |-> UpdateTag,
                                      at |-> now])]_vars

(* C6, amended: such an update check calls notifyAll once, with the text   *)
(* referencing the update and kind UP; the call is dispatched if no UP     *)
(* notification was dispatched within the throttle window before it, and   *)
(* dropped otherwise.                                                      *)
C6_OneUpdateNoticeUnlessThrottled ==
    [][UpdateAppliedWhileUp =>
          /\ calls' = << [status |-> "UP", detail |-> Detail(UpdateTag),
                          at |-> now, sent |-> ~UpThrottled] >>
          /\ sentLog' = IF UpThrottled THEN sentLog
                        ELSE Append(sentLog, [status |-> "UP",
                                              tag |-> UpdateTag, at |-> now])
       ]_vars

(* An update applied while Up whose notification was dispatched *)
C6_Witness ==
    /\ event \in {<<"autoPull", "changed">>, <<"manualPull", "changed">>}
    /\ procs[botProcess].killedBy = "update"
    /\ Len(calls) = 1 /\ calls[1].sent
    /\ calls[1].detail.tag \in {"Code updated", "Manual update"}

(* A step that brings the state from Down, after an exit, to Up while      *)
(* autoRestart is off                                                      *)
BroughtUpWhileOff ==
    /\ ~autoRestart /\ ~isUp /\ isUp'
    /\ botProcess # 0 /\ procs[botProcess].state = "exited"

(* C7, as claimed: with autoRestart off no child exit leads to an          *)
(* automatic start, and the state stays Down from the exit until a POST    *)
(* /control/restart: nothing else brings it Up.                            *)
C7_OnlyRestartBringsUp ==
    [][/\ (ExitStep /\ ~autoRestart) => timers' = timers
       /\ BroughtUpWhileOff =>
             Spawned /\ procs'[botProcess'].org.src = "restart"]_vars

(* C7, amended: an exit handled while autoRestart is off schedules no      *)
(* start, and the state then stays Down until a start is made by the timer *)
(* of a POST /control/restart, by an update check that applies a change,   *)
(* or by an auto-restart timer that was already pending.                   *)
C7_StaysDownUntilStarted ==
    [][/\ (ExitStep /\ ~autoRestart) => timers' = timers
       /\ BroughtUpWhileOff =>
             /\ Spawned
             /\ LET org == procs'[botProcess'].org
                IN \/ org.src = "update"
                   \/ /\ org.src \in {"restart", "exit"}
                      /\ \E k \in StartTimers : timers[k].org = org
                                                /\ timers[k].due <= now
       ]_vars

(* Down after an exit, autoRestart off, no start pending *)
C7_Witness ==
    /\ event[1] = "exit"
    /\ ~autoRestart /\ ~isUp /\ StartTimers = {}
    /\ procs[botProcess].state = "exited"

(* The exit handler, with autoRestart on, schedules startBot 5 s later, and *)
(* a start made by such a timer is made when the timer is due              *)
AutoRestartAfterDelay ==
    /\ (ExitStep /\ autoRestart) =>
          \E i \in 1..Len(procs) :
              /\ Alive(procs[i]) /\ procs'[i].state = "exited"
              /\ timers' = Insert(timers, [fn |-> "startBot",
                                           due |-> now + 5000,
                                           org |-> Origin("exit", i, FALSE)])
    /\ (Spawned /\ procs'[Len(procs')].org.src = "exit") =>
          \E k \in StartTimers :
              /\ timers[k].org = procs'[Len(procs')].org
              /\ timers[k].due = now
              /\ timers' = Drop(timers, k)

(* An auto-restart timer is counting down *)
AutoRestartPending ==
    \E k \in StartTimers : timers[k].org.src = "exit" /\ now < timers[k].due

(* C8, as claimed: with autoRestart on, after an exit at t startBot is     *)
(* invoked at t + 5 s and the supervisor starts no process in [t, t + 5 s). *)
C8_NoStartBeforeFiveSeconds ==
    [][AutoRestartAfterDelay /\ (AutoRestartPending => ~Spawned)]_vars

(* C8, amended: with autoRestart on, the exit handler schedules startBot   *)
(* for t + 5 s and that start is not made before t + 5 s; in [t, t + 5 s)  *)
(* the supervisor starts a process only from the timer of a restart        *)
(* command, from an update check that applies a change, or from an earlier *)
(* auto-restart timer.                                                     *)
C8_AutoRestartAfterFiveSeconds ==
    [][/\ AutoRestartAfterDelay
       /\ (AutoRestartPending /\ Spawned) =>
             LET org == procs'[Len(procs')].org
             IN \/ org.src = "update"
                \/ /\ org.src \in {"restart", "exit"}
                   /\ \E k \in StartTimers : timers[k].org = org
                                             /\ timers[k].due = now
       ]_vars

(* A child started by the auto-restart timer, 5 s after the exit *)
C8_Witness ==
    /\ event[1] = "startTimer"
    /\ procs[botProcess].org.src = "exit"
    /\ lastStartTime = now /\ lastStartTime = lastExitTime + 5000

(* C9: startBot called while the process is Up is a no-op: no second child *)
(* is spawned, botProcess and lastStartTime stay as they are and notifyAll *)
(* is not called.                                                          *)
C9_StartWhileUpIsNoOp ==
    [][(isUp /\ event' = <<"startTimer", "">> /\ Len(timers') < Len(timers)) =>
          /\ UNCHANGED <<procs, botProcess, lastStartTime, sentLog>>
          /\ calls' = <<>>]_vars

(* C10: the handler of every child exit sets isUp to false, records        *)
(* lastExitTime, calls notifyAll once, with kind DOWN and the exit code    *)
(* and signal, and schedules a start 5 s later if and only if autoRestart  *)
(* is on.                                                                  *)
C10_ExitHandler ==
    [][ExitStep =>
          \E i \in 1..Len(procs), x \in ExitInputs :
              /\ Alive(procs[i]) /\ procs'[i].state = "exited"
              /\ event' = <<"exit", x>>
              /\ isUp' = FALSE
              /\ lastExitTime' = now
              /\ Len(calls') = 1
              /\ calls'[1].status = "DOWN"
              /\ calls'[1].detail = [tag |-> "Exit", code |-> x.code,
                                     signal |-> x.signal]
              /\ timers' = IF autoRestart
                           THEN Insert(timers,
                                       [fn |-> "startBot",
                                        due |-> now + 5000,
                                        org |-> Origin("exit", i, FALSE)])
                           ELSE timers
       ]_vars

(* An exit by SIGTERM handled with autoRestart on *)
C10_Witness ==
    /\ event = <<"exit", [code |-> -1, signal |-> "SIGTERM"]>>
    /\ ~isUp /\ lastExitTime = now /\ autoRestart
    /\ \E k \in StartTimers : timers[k].due = now + 5000

(* A step that is the 'error' event of a child whose spawn failed *)
ErrorStep ==
    \E i \in 1..Len(procs) :
        procs[i].state = "failed" /\ procs'[i].state = "errored"

(* C11: when a child emits a spawn error, isUp becomes false, notifyAll is *)
(* called once, with kind DOWN and a text that carries the error message,  *)
(* and with autoRestart off the handler schedules no start.                *)
C11_SpawnError ==
    [][ErrorStep =>
          \E m \in ErrorMessages :
              /\ event' = <<"error", m>>
              /\ isUp' = FALSE
              /\ lastExitTime' = now
              /\ Len(calls') = 1
              /\ calls'[1].status = "DOWN"
              /\ calls'[1].detail.tag = "Error:" \o m
              /\ ~autoRestart => timers' = timers
       ]_vars

(* The spawn at launch failed with autoRestart off, and the DOWN           *)
(* notification was dispatched                                             *)
C11_Witness ==
    /\ event[1] = "error"
    /\ ~isUp /\ ~autoRestart /\ StartTimers = {}
    /\ Len(calls) = 1 /\ calls[1].sent
    /\ calls[1].detail.tag = "Error:" \o event[2]

(* C12: at most one update pull is in flight at any time: a check          *)
(* initiated while the pull of another has not completed starts no second  *)
(* pull.                                                                   *)
C12_OnePullInFlight == pulls.auto + pulls.manual <= 1

(* The children that are alive *)
Live == {i \in 1..Len(procs) : Alive(procs[i])}

(* C13: when a child has exited with autoRestart on and a manual restart   *)
(* has brought the process Up before the auto-restart timer of that exit   *)
(* fires, the timer spawns no additional child when it fires: the number   *)
(* of live children stays one.                                             *)
C13_StaleAutoRestartIgnored ==
    [][\A k \in StartTimers :
          ( /\ timers[k].org.src = "exit"
            /\ timers[k].due <= now
            /\ timers' = Drop(timers, k)
            /\ event' = <<"startTimer", "">>
            /\ isUp /\ botProcess > timers[k].org.grp
            /\ procs[botProcess].org.src = "restart"
            /\ Live = {botProcess} )
          => Live' = Live
       ]_vars

(* A step in which the interval timer fires *)
IntervalTick == event' = <<"interval", "">> /\ timers' # timers

(* C16: a failed update pull kills nothing, starts nothing, notifies       *)
(* nothing and leaves isUp, botProcess, autoRestart and lastNotify as they *)
(* are; the interval timer stays armed, and every interval tick initiates  *)
(* an update check and re-arms the timer.                                  *)
C16_PullFailure ==
    [][/\ (PullStep("auto", "error") \/ PullStep("manual", "error")) =>
             /\ UNCHANGED <<isUp, botProcess, autoRestart, lastNotify, procs,
                            timers, sentLog, fanouts, deliveries>>
             /\ calls' = <<>>
       /\ \E i \in 1..Len(timers') :
             /\ timers'[i].fn = "autoUpdate"
             /\ timers'[i].due <= now' + UpdateInterval
       /\ IntervalTick =>
             /\ pulls'.auto = pulls.auto + 1
             /\ \E i \in 1..Len(timers') :
                   /\ timers'[i].fn = "autoUpdate"
                   /\ timers'[i].due = now + UpdateInterval
       ]_vars

(* The pull of a scheduled check has failed, a day into the run, while the *)
(* process is Up                                                           *)
C16_Witness ==
    /\ event = <<"autoPull", "error">>
    /\ now >= StartOfRun + UpdateInterval
    /\ pulls.auto = 0
    /\ isUp /\ Alive(procs[botProcess])

(* A step in which requireAuth rejects a request *)
RejectStep ==
    /\ event' \in {<<"restart", "401">>, <<"update", "401">>}
    /\ inputs' = inputs + 1

(* C17: a POST /control/restart or /control/update with missing or wrong   *)
(* credentials is rejected with 401 and changes no supervisor state: no    *)
(* signal is sent, no timer scheduled, no pull started, and isUp,          *)
(* botProcess, autoRestart and lastNotify are unchanged.                   *)
C17_RejectedRequest ==
    [][RejectStep =>
          /\ UNCHANGED <<isUp, botProcess, lastStartTime, lastExitTime,
                         autoRestart, lastNotify, timers, procs, pulls,
                         sentLog, fanouts, deliveries>>
          /\ calls' = <<>>
       ]_vars

(* A restart request was rejected while the process is Up: the child runs  *)
(* on and no start is scheduled                                            *)
C17_Witness ==
    /\ event = <<"restart", "401">>
    /\ isUp /\ procs[botProcess].state = "running"
    /\ StartTimers = {}

(* C18: every mutating control endpoint is behind the basic-auth gate: a   *)
(* request that lacks valid credentials does not change autoRestart.       *)
C18_FlagBehindAuth ==
    [][(event' = <<"autorestart", "unauthenticated">> /\ inputs' = inputs + 1)
          => autoRestart' = autoRestart]_vars

(* C19: a POST /control/restart accepted while the process is Down, with   *)
(* no other start pending (its timer is the only one and no timer has      *)
(* started a child before), results in one startBot invocation, after      *)
(* which the state is Up and the child it launched is the only live one.   *)
C19_RestartWhileDown ==
    [][\A k \in StartTimers :
          ( /\ timers[k].org.src = "restart" /\ ~timers[k].org.up
            /\ StartTimers = {k}
            /\ \A i \in 1..Len(procs) : procs[i].org.src \notin {"restart", "exit"}
            /\ timers' = Drop(timers, k)
            /\ event' = <<"startTimer", "">> )
          => /\ Len(procs') = Len(procs) + 1
             /\ isUp'
             /\ Launched(procs'[Len(procs')]) => Live' = {Len(procs')}
       ]_vars

(* A step in which an update check applies a change while the process is   *)
(* Down                                                                    *)
UpdateAppliedWhileDown ==
    /\ PullStep("auto", "changed") \/ PullStep("manual", "changed")
    /\ ~(botProcess # 0 /\ isUp)

(* C20: an update check that applies a change while the process is Down    *)
(* calls startBot directly: exactly one child is spawned, in the same      *)
(* callback, no signal is sent and no timer scheduled; notifyAll is called *)
(* with kind UP and the text referencing the update, and that call is      *)
(* dispatched unless an UP notification was dispatched within the throttle *)
(* window before it.                                                       *)
C20_UpdateWhileDown ==
    [][UpdateAppliedWhileDown =>
          /\ Len(procs') = Len(procs) + 1
          /\ SubSeq(procs', 1, Len(procs)) = procs
          /\ procs'[Len(procs')].org.src = "update"
          /\ botProcess' = Len(procs') /\ isUp' /\ lastStartTime' = now
          /\ timers' = timers
          /\ Len(calls') = 2
          /\ calls'[1] = [status |-> "UP", detail |-> Detail(UpdateTag),
                          at |-> now, sent |-> ~UpThrottled]
          /\ calls'[2].detail.tag = "Bot started"
          /\ sentLog' = IF UpThrottled THEN sentLog
                        ELSE Append(sentLog, [status |-> "UP",
                                              tag |-> UpdateTag, at |-> now])
       ]_vars

(* An update applied while Down, more than a throttle window after the     *)
(* last UP notification: the child is started and the update announced     *)
C20_Witness ==
    /\ event \in {<<"autoPull", "changed">>, <<"manualPull", "changed">>}
    /\ procs[botProcess].org.src = "update"
    /\ procs[botProcess].state = "running"
    /\ isUp /\ lastStartTime = now
    /\ Len(calls) = 2 /\ calls[1].sent
    /\ calls[1].detail.tag \in {"Code updated", "Manual update"}

(* The platforms notifyAll posts to *)
Channels ==
    {i \in 1..Len(platforms) :
        platforms[i].active /\ platforms[i].type \in ChannelTypes}

(* The posts issued by invocation c *)
Attempts(c) == {d \in 1..Len(deliveries) : deliveries[d].call = c}

(* C14: for a call that passes the throttle gate, lastNotify[status] holds *)
(* the time of the call before any post is issued; a post that fails is    *)
(* followed by the post to the next active channel, and the promise of     *)
(* notifyAll is never rejected.                                            *)
C14_FanOutIsolated ==
    \A c \in 1..Len(fanouts) :
        /\ fanouts[c].settled # "rejected"
        /\ lastNotify[fanouts[c].status] >= fanouts[c].at
        /\ \A d \in Attempts(c) :
              /\ deliveries[d].stamp >= fanouts[c].at
              /\ deliveries[d].result # "pending" =>
                    LET later == {i \in Channels : i > deliveries[d].channel}
                    IN IF later = {}
                       THEN fanouts[c].settled = "fulfilled"
                       ELSE \E e \in Attempts(c) :
                               deliveries[e].channel =
                                   CHOOSE i \in later : \A j \in later : i <= j

(* A fan-out over two active channels has completed although the post to   *)
(* the first channel failed                                                *)
C14_Witness ==
    \E c \in 1..Len(fanouts) :
        /\ fanouts[c].settled = "fulfilled"
        /\ \E d, e \in Attempts(c) :
              /\ deliveries[d].result = "failed"
              /\ deliveries[e].channel > deliveries[d].channel
              /\ deliveries[d].stamp = fanouts[c].at

(* C15: a dispatched notification makes one post to each active channel    *)
(* and none to an inactive one; there is one fan-out for each call that    *)
(* passed the gate, none for a dropped call, and two fan-outs of one       *)
(* status kind are at least a throttle window apart whatever the channel.  *)
C15_OneAttemptPerChannel ==
    /\ Len(fanouts) = Len(sentLog)
    /\ \A d \in 1..Len(deliveries) : deliveries[d].call \in 1..Len(fanouts)
    /\ \A c \in 1..Len(fanouts) :
          /\ fanouts[c].status = sentLog[c].status
          /\ fanouts[c].at = sentLog[c].at
          /\ \A d \in Attempts(c) : deliveries[d].channel \in Channels
          /\ \A d, e \in Attempts(c) :
                deliveries[d].channel = deliveries[e].channel => d = e
          /\ fanouts[c].settled = "fulfilled" =>
                {deliveries[d].channel : d \in Attempts(c)} = Channels
          /\ \A b \in 1..Len(fanouts) :
                (b < c /\ fanouts[b].status = fanouts[c].status) =>
                    fanouts[c].at - fanouts[b].at >= ThrottleWindow

(* With an inactive and an active channel configured, a notification has   *)
(* been delivered to the active one alone, and a later call of the same    *)
(* kind, inside the window, has been dropped for every channel             *)
C15_Witness ==
    /\ \E i \in 1..Len(platforms) :
          ~platforms[i].active /\ platforms[i].type \in ChannelTypes
    /\ Channels # {}
    /\ event[1] = "notify" /\ Len(calls) = 1 /\ ~calls[1].sent
    /\ \E c \in 1..Len(fanouts) :
          /\ fanouts[c].status = calls[1].status
          /\ fanouts[c].settled = "fulfilled"
          /\ Cardinality(Attempts(c)) = 1

(***************************************************************************)
(* The dashboard                                                           *)
(***************************************************************************)

(* The step is a GET / *)
DashboardStep == event'[1] = "dashboard" /\ inputs' = inputs + 1

(* C21: GET / is read-only: whatever the memory reading, it changes none   *)
(* of isUp, botProcess, autoRestart, lastStartTime, lastExitTime and       *)
(* lastNotify, calls notifyAll not once and so dispatches nothing, and     *)
(* touches no timer, child or pull.                                        *)
C21_DashboardReadOnly ==
    [][DashboardStep =>
          /\ UNCHANGED <<isUp, botProcess, autoRestart, lastStartTime,
                         lastExitTime, lastNotify>>
          /\ calls' = <<>>
          /\ UNCHANGED <<sentLog, fanouts, deliveries>>
          /\ UNCHANGED <<timers, procs, pulls>>]_vars

(* The dashboard has been rendered with less than a tenth of the memory    *)
(* free, while the process is Up and no RESOURCE notification has been     *)
(* sent within the window                                                  *)
C21_Witness ==
    /\ event = <<"dashboard", "low">>
    /\ isUp /\ botProcess # 0 /\ procs[botProcess].state = "running"
    /\ now - lastNotify["RESOURCE"] >= ThrottleWindow

(***************************************************************************)
(* isUp and the children                                                   *)
(***************************************************************************)

(* C23: whenever isUp is true, botProcess refers to a child that is alive: *)
(* the state "Up with no live handle" is never reached, spawn failures     *)
(* included.                                                               *)
C23_UpHasLiveChild ==
    isUp => botProcess # 0 /\ Alive(procs[botProcess])

(* Outside the interval between a failed spawn and its 'error' event, Up   *)
(* does come with a live botProcess                                        *)
C23_UpHasLiveChildOnceSettled ==
    (isUp /\ ~ErrorPending) => botProcess # 0 /\ Alive(procs[botProcess])

(* C28: while any child that was spawned is still alive, isUp is true: the *)
(* exit of a child that has been replaced does not mark the state Down     *)
(* while the newer child runs.  Stated for the newest child alone: while   *)
(* the child botProcess refers to is running, isUp is true.                *)
C28_LiveChildMeansUp ==
    (botProcess # 0 /\ procs[botProcess].state = "running") => isUp

(***************************************************************************)
(* The gate and lastNotify                                                 *)
(***************************************************************************)

(* The step is one call of notifyAll *)
NotifyStep == event'[1] = "notify" /\ inputs' = inputs + 1

(* The step dispatches a notification *)
Dispatches == Len(sentLog') = Len(sentLog) + 1

(* The time of the last dispatch of a kind, 0 when there was none *)
LastDispatch(kind) ==
    LET T == {sentLog[i].at : i \in {n \in 1..Len(sentLog) :
                                            sentLog[n].status = kind}}
    IN IF T = {} THEN 0 ELSE CHOOSE t \in T : \A u \in T : u <= t

(* C30: a notifyAll call dropped by the gate leaves lastNotify unchanged   *)
(* for every status kind; a dispatched call sets lastNotify of its own     *)
(* kind to the time of the call and leaves the other kinds alone.  So      *)
(* dropped calls do not postpone the next dispatch: a call is dispatched   *)
(* exactly when a window has passed since the last dispatch of its kind.   *)
C30_DroppedCallKeepsStamp ==
    [][NotifyStep =>
          LET status == event'[2]
          IN /\ ~Dispatches => lastNotify' = lastNotify
             /\ Dispatches =>
                   lastNotify' = [lastNotify EXCEPT ![status] = now]
             /\ Dispatches <=> now - LastDispatch(status) >= ThrottleWindow
             /\ Len(sentLog') \in {Len(sentLog), Len(sentLog) + 1}]_vars

(* A call has been dropped one millisecond before the window of its kind   *)
(* ends, and lastNotify of the kind is still the time of the dispatch      *)
C30_Witness ==
    /\ event[1] = "notify" /\ Len(calls) = 1 /\ ~calls[1].sent
    /\ now - lastNotify[calls[1].status] = ThrottleWindow - 1
    /\ lastNotify[calls[1].status] = LastDispatch(calls[1].status)
    /\ \E k \in Kinds : lastNotify[k] # lastNotify[calls[1].status]

(***************************************************************************)
(* The monitor under the scheduling of the event loop                      *)
(***************************************************************************)

(* A step of the event loop that needs no input: a timer that is due      *)
(* fires, the 'error' event of a failed spawn is delivered at the next     *)
(* tick, the clock reaches the time of the next timer                      *)
LoopStep ==
    \/ StartTimerFires
    \/ IntervalFires
    \/ ChildError
    \/ WaitForTimer

(* The event loop does not stall while it has such a step to take.         *)
(* Requests, pulls and child exits come or do not come.                    *)
FairSpec == Init /\ [][Next]_vars /\ WF_vars(LoopStep)

(* The child has exited with autoRestart on: the start scheduled by the    *)
(* 'exit' handler has not run yet and the state is Down                    *)
DownAwaitingAutoRestart ==
    /\ ~isUp
    /\ \E k \in StartTimers : timers[k].org.src = "exit"
    /\ Len(procs) < MaxSpawn

(* C29: with autoRestart on, whenever the child exits the state eventually *)
(* becomes Up again, whatever restart and update commands, pulls and other *)
(* exits come in between, provided that timers that are due do fire.       *)
C29_AutoRestartBringsUp ==
    DownAwaitingAutoRestart ~> isUp

(* Up again by the child that the auto-restart timer started *)
C29_Witness ==
    /\ event[1] = "startTimer"
    /\ isUp /\ procs[botProcess].org.src = "exit"
    /\ procs[botProcess].state = "running"
    /\ procs[procs[botProcess].org.grp].state = "exited"
    /\ autoRestart

(* The same with "Up" read as "Up with a running child": not so when the   *)
(* spawn of the auto-restart fails                                         *)
C29_AutoRestartBringsChild ==
    DownAwaitingAutoRestart ~> (isUp /\ Alive(procs[botProcess]))

----------------------------------------------------------------------------
(***************************************************************************)
(* part_005.  The state, notifyAll, the 'exit' and 'error' handlers and    *)
(* the control endpoints are those of monitor.js.  startBot returns at     *)
(* once when the state is Up; an update that finds the process Up kills it *)
(* and starts it again from a timer; an update notifies after the start;   *)
(* the interval of autoUpdate is set by the listen callback, which makes   *)
(* no update check of its own.                                             *)
(***************************************************************************)

P5_UpdateDelay == 1000

P5_notifyAll(S, detail, status) == notifyAll(S, detail, status)

(* startBot without its first statement *)
P5_startBot_Unguarded(S, ok, org) ==
    LET id == Len(S.procs) + 1
        S1 == [S EXCEPT
                 !.procs = Append(@, [state |-> IF ok THEN "running"
                                                      ELSE "failed",
                                      org |-> org, killedBy |-> ""]),
                 !.botProcess = id,
                 !.isUp = TRUE,
                 !.lastStartTime = now]
    IN P5_notifyAll(S1, Detail("Bot started"), "UP")

(* if(isUp) return; then as in monitor.js *)
P5_startBot(S, ok, org) ==
    IF S.isUp THEN S
    ELSE LET id == Len(S.procs) + 1
             S1 == [S EXCEPT
                      !.procs = Append(@, [state |-> IF ok THEN "running"
                                                           ELSE "failed",
                                           org |-> org, killedBy |-> ""]),
                      !.botProcess = id,
                      !.isUp = TRUE,
                      !.lastStartTime = now]
         IN P5_notifyAll(S1, Detail("Bot started"), "UP")

(* The 'exit' handler of child p *)
P5_onExit(S, p, c, s) ==
    LET S1 == [S EXCEPT !.isUp = FALSE, !.lastExitTime = now]
        S2 == P5_notifyAll(S1, [tag |-> "Exit", code |-> c, signal |-> s],
                           "DOWN")
    IN IF S2.autoRestart
       THEN setTimeout(S2, "startBot", AutoRestartDelay,
                       Origin("exit", p, FALSE))
       ELSE S2

(* The 'error' handler of a child *)
P5_onError(S, message) ==
    LET S1 == [S EXCEPT !.isUp = FALSE, !.lastExitTime = now]
    IN P5_notifyAll(S1, Detail("Error:" \o message), "DOWN")

(* The wording of the notification of an update *)
P5_UpdateTag(src) ==
    IF src = "autoUpdate" THEN "Auto-updated" ELSE "Manually updated"

P5_UpdateTags == {P5_UpdateTag(src) : src \in {"autoUpdate", "manualUpdate"}}

(* () => { startBot(); notifyAll('... updated','UP'); }, the callback of   *)
(* the timer of an update and the else branch of an update                 *)
P5_startAndNotify(S, ok, org) ==
    P5_notifyAll(P5_startBot(S, ok, org), Detail(P5_UpdateTag(org.src)), "UP")

(* The body of the two pull callbacks once the pull has brought a change *)
P5_applyUpdate(S, ok, src) ==
    IF S.botProcess # 0 /\ S.isUp
    THEN setTimeout(kill(S, S.botProcess, "update"), "startBot",
                    P5_UpdateDelay, Origin(src, 0, TRUE))
    ELSE P5_startAndNotify(S, ok, Origin(src, 0, FALSE))

(* The callback of autoUpdate's pull *)
P5_autoUpdateDone(S, result, ok) ==
    IF result = "changed" THEN P5_applyUpdate(S, ok, "autoUpdate") ELSE S

(* The callback of manualUpdate's pull *)
P5_manualUpdateDone(S, result, ok) ==
    IF result = "changed" THEN P5_applyUpdate(S, ok, "manualUpdate") ELSE S

(* POST /control/restart behind requireAuth *)
P5_restartHandler(S) ==
    LET S1 == IF S.botProcess # 0 /\ S.isUp
              THEN kill(S, S.botProcess, "restart")
              ELSE S
    IN setTimeout(S1, "startBot", RestartDelay, Origin("restart", 0, S.isUp))

(* The state after the module is loaded: no timer is set yet *)
P5_Init ==
    /\ listening = FALSE
    /\ isUp = FALSE
    /\ botProcess = 0
    /\ lastStartTime = 0
    /\ lastExitTime = 0
    /\ autoRestart = FALSE
    /\ lastNotify = [k \in Kinds |-> 0]
    /\ now = StartOfRun
    /\ timers = <<>>
    /\ procs = <<>>
    /\ pulls = [auto |-> 0, manual |-> 0]
    /\ inputs = 0
    /\ burst = 0
    /\ sentLog = <<>>
    /\ calls = <<>>
    /\ event = <<"load", "">>
    /\ fanouts = <<>>
    /\ deliveries = <<>>
    /\ crashed = FALSE
    /\ platforms = <<>>

(* app.listen callback: startBot(); setInterval(autoUpdate, ...); *)
P5_Listen ==
    /\ ~listening
    /\ listening' = TRUE
    /\ \E ok \in BOOLEAN :
         LET S1 == P5_startBot(Cur, ok, Origin("listen", 0, FALSE))
         IN Commit([S1 EXCEPT !.timers =
                       Insert(@, [fn |-> "autoUpdate",
                                  due |-> now + UpdateInterval,
                                  org |-> Origin("interval", 0, FALSE)])])
    /\ event' = <<"listen", "">>
    /\ UNCHANGED now

(* 'exit' event of child i *)
P5_ChildExit ==
    /\ ~ErrorPending
    /\ \E i \in 1..Len(procs), x \in ExitInputs :
         /\ Alive(procs[i])
         /\ x.signal = "SIGTERM" => procs[i].state = "terminating"
         /\ Commit(P5_onExit([Cur EXCEPT !.procs[i].state = "exited"],
                             i, x.code, x.signal))
         /\ event' = <<"exit", x>>
    /\ UNCHANGED <<listening, now>>

(* 'error' event of child i, whose spawn failed *)
P5_ChildError ==
    /\ \E i \in 1..Len(procs), m \in ErrorMessages :
         /\ procs[i].state = "failed"
         /\ Commit(P5_onError([Cur EXCEPT !.procs[i].state = "errored"], m))
         /\ event' = <<"error", m>>
    /\ UNCHANGED <<listening, now>>

(* A timer set by the restart endpoint, the 'exit' handler or an update    *)
(* fires; the second component of event is the callback that set it        *)
P5_StartTimerFires ==
    /\ ~ErrorPending
    /\ \E i \in StartTimers, ok \in BOOLEAN :
         /\ timers[i].due <= now
         /\ ~isUp => Len(procs) < MaxSpawn
         /\ LET t  == timers[i]
                S0 == [Cur EXCEPT !.timers = Drop(@, i)]
            IN /\ Commit(IF t.org.src \in {"autoUpdate", "manualUpdate"}
                         THEN P5_startAndNotify(S0, ok, t.org)
                         ELSE P5_startBot(S0, ok, t.org))
               /\ event' = <<"startTimer", t.org.src>>
    /\ UNCHANGED <<listening, now>>

(* The setInterval(autoUpdate, ...) timer fires and is re-armed *)
P5_IntervalFires ==
    /\ ~ErrorPending
    /\ \E i \in 1..Len(timers) :
         /\ timers[i].fn = "autoUpdate"
         /\ timers[i].due <= now
         /\ Commit(execPull([Cur EXCEPT
                   !.timers = Insert(Drop(@, i),
                                     [timers[i] EXCEPT
                                        !.due = now + UpdateInterval])],
                            "auto"))
    /\ event' = <<"interval", "">>
    /\ UNCHANGED <<listening, now>>

(* A 'git pull' completes *)
P5_AutoPullDone ==
    /\ ~ErrorPending
    /\ pulls.auto > 0
    /\ \E r \in PullResults, ok \in BOOLEAN :
         /\ (r = "changed" /\ ~isUp) => Len(procs) < MaxSpawn
         /\ Commit(P5_autoUpdateDone([Cur EXCEPT !.pulls.auto = @ - 1], r, ok))
         /\ event' = <<"autoPull", r>>
    /\ UNCHANGED <<listening, now>>

P5_ManualPullDone ==
    /\ ~ErrorPending
    /\ pulls.manual > 0
    /\ \E r \in PullResults, ok \in BOOLEAN :
         /\ (r = "changed" /\ ~isUp) => Len(procs) < MaxSpawn
         /\ Commit(P5_manualUpdateDone([Cur EXCEPT !.pulls.manual = @ - 1],
                                       r, ok))
         /\ event' = <<"manualPull", r>>
    /\ UNCHANGED <<listening, now>>

(* POST /control/restart *)
P5_Restart ==
    /\ listening /\ ~ErrorPending
    /\ inputs < MaxInputs
    /\ \E authOk \in BOOLEAN :
         IF authOk
         THEN /\ Commit(P5_restartHandler([Cur EXCEPT !.inputs = @ + 1]))
              /\ event' = <<"restart", "">>
         ELSE /\ Commit(rejected([Cur EXCEPT !.inputs = @ + 1]))
              /\ event' = <<"restart", "401">>
    /\ UNCHANGED <<listening, now>>

(* POST /control/update *)
P5_Update ==
    /\ listening /\ ~ErrorPending
    /\ inputs < MaxInputs
    /\ \E authOk \in BOOLEAN :
         IF authOk
         THEN /\ Commit(execPull([Cur EXCEPT !.inputs = @ + 1], "manual"))
              /\ event' = <<"update", "">>
         ELSE /\ Commit(rejected([Cur EXCEPT !.inputs = @ + 1]))
              /\ event' = <<"update", "401">>
    /\ UNCHANGED <<listening, now>>

(* POST /control/autorestart, a route without requireAuth *)
P5_ToggleAutoRestart ==
    /\ listening /\ ~ErrorPending
    /\ \E on \in BOOLEAN :
         /\ on # autoRestart
         /\ Commit([autorestartHandler(Cur, on) EXCEPT !.calls = calls])
         /\ UNCHANGED event
    /\ UNCHANGED <<listening, now>>

P5_Next ==
    \/ P5_Listen
    \/ P5_ChildExit
    \/ P5_ChildError
    \/ P5_StartTimerFires
    \/ P5_IntervalFires
    \/ P5_AutoPullDone
    \/ P5_ManualPullDone
    \/ P5_Restart
    \/ P5_ToggleAutoRestart
    \/ P5_Update
    \/ Idle
    \/ WaitForTimer

P5_Spec == P5_Init /\ [][P5_Next]_vars

----------------------------------------------------------------------------
(* Claims about part_005 *)

(* The step runs the start of an applied update: the pull callback when    *)
(* the process is Down, the callback of the update's timer when it was Up  *)
P5_UpdateStartStep ==
    \/ /\ pulls' # pulls
       /\ event'[1] \in {"autoPull", "manualPull"} /\ event'[2] = "changed"
       /\ ~(botProcess # 0 /\ isUp)
    \/ /\ Len(timers') < Len(timers)
       /\ event'[1] = "startTimer"
       /\ event'[2] \in {"autoUpdate", "manualUpdate"}

(* The notifications that the step dispatches with the wording of an       *)
(* update                                                                  *)
P5_UpdateNotices ==
    {i \in (Len(sentLog) + 1)..Len(sentLog') : sentLog'[i].tag \in P5_UpdateTags}

(* C25: whenever an update check applies a change, the process Up or Down, *)
(* exactly one UP notification with the wording of the update is           *)
(* dispatched for the update.  Stated for updates before which no UP       *)
(* notification was dispatched for a throttle window, so that none is      *)
(* dropped on account of an earlier one.                                   *)
C25_UpdateNoticeDispatched ==
    [][(P5_UpdateStartStep /\ ThrottleWindow > 0
          /\ now - LastDispatch("UP") >= ThrottleWindow)
       => Cardinality(P5_UpdateNotices) = 1]_vars

(* C26: at most one child is alive at any time *)
C26_AtMostOneChild ==
    /\ Cardinality(Live) <= 1
    /\ Live # {} => isUp /\ Live = {botProcess}

(* The auto-restart timer has fired after a restart command had brought    *)
(* the process Up, and has started nothing                                 *)
C26_Witness ==
    /\ event = <<"startTimer", "exit">>
    /\ calls = <<>>
    /\ isUp /\ Live = {botProcess}
    /\ procs[botProcess].org.src = "restart"
    /\ Len(procs) < MaxSpawn

(* C27: after SIGTERM is sent to an Up child for a restart command or an   *)
(* applied update, one new child is started and the state becomes Up       *)
(* again, whether the 'exit' event comes before or after the timer and     *)
(* whatever autoRestart is.  Stated as what that needs while no input      *)
(* arrives: as long as the killed child has exited, no child has been      *)
(* started after it and no pull is under way, a start is scheduled.        *)
C27_RestartCompletes ==
    \A i \in 1..Len(procs) :
        (/\ procs[i].killedBy \in {"restart", "update"}
         /\ procs[i].state = "exited"
         /\ Len(procs) = i /\ ~isUp
         /\ pulls.auto + pulls.manual = 0)
        => StartTimers # {}

----------------------------------------------------------------------------
(***************************************************************************)
(* part_004.  The state and the gate of notifyAll are those of monitor.js. *)
(* getResources, which the dashboard calls, warns of low memory; the       *)
(* restart endpoint and the timers of the restart endpoint and of the      *)
(* 'exit' handler notify; there is no update endpoint.                     *)
(***************************************************************************)

P4_notifyAll(S, detail, status) == notifyAll(S, detail, status)

P4_startBot(S, ok, org) ==
    LET id == Len(S.procs) + 1
        S1 == [S EXCEPT
                 !.procs = Append(@, [state |-> IF ok THEN "running"
                                                      ELSE "failed",
                                      org |-> org, killedBy |-> ""]),
                 !.botProcess = id,
                 !.isUp = TRUE,
                 !.lastStartTime = now]
    IN P4_notifyAll(S1, Detail("Bot has started successfully."), "UP")

(* The 'exit' handler of child p *)
P4_onExit(S, p, c, s) ==
    LET S1 == [S EXCEPT !.isUp = FALSE, !.lastExitTime = now]
        S2 == P4_notifyAll(S1, [tag |-> "Exit", code |-> c, signal |-> s],
                           "DOWN")
    IN IF S2.autoRestart
       THEN setTimeout(S2, "startBot", AutoRestartDelay,
                       Origin("exit", p, FALSE))
       ELSE S2

(* The 'error' handler of a child *)
P4_onError(S, message) ==
    LET S1 == [S EXCEPT !.isUp = FALSE, !.lastExitTime = now]
    IN P4_notifyAll(S1, Detail("Error: " \o message), "DOWN")

(* Timer callbacks that notify first and call startBot() after *)
P4_startAndNotify_NotifyFirst(S, ok, org) ==
    P4_startBot(P4_notifyAll(S, Detail(IF org.src = "exit"
                                       THEN "Auto-restarted."
                                       ELSE "Manually restarted"),
                             "UP"),
                ok, org)

(* The callbacks of the two timers: startBot(), then a notification that   *)
(* names the callback that set the timer                                   *)
P4_startAndNotify(S, ok, org) ==
    P4_notifyAll(P4_startBot(S, ok, org),
                 Detail(IF org.src = "exit" THEN "Auto-restarted."
                                            ELSE "Manually restarted"),
                 "UP")

(* The callback of autoUpdate's pull *)
P4_autoUpdateDone(S, result, ok) ==
    IF result = "changed"
    THEN LET S1 == P4_notifyAll(S, Detail("New code pulled, restarting..."),
                                "UP")
         IN IF S1.botProcess # 0 /\ S1.isUp
            THEN kill(S1, S1.botProcess, "update")
            ELSE P4_startBot(S1, ok, Origin("update", 0, FALSE))
    ELSE S

(* What os.freemem() and os.totalmem() read when the dashboard is          *)
(* rendered, in tenths of a MiB: 400.0 of 8001.4 MiB free (5.0 %), 800.2   *)
(* of 8001.4 (10.001 %), 799.6 of 8000.4 (9.995 %), 4000.0 of 8001.4       *)
(* (50 %)                                                                  *)
P4_MemoryReadings ==
    { [free |-> 4000,  total |-> 80014],
      [free |-> 8002,  total |-> 80014],
      [free |-> 7996,  total |-> 80004],
      [free |-> 40000, total |-> 80014] }

(* (x).toFixed(0) of a number of MiB given in tenths: the nearest whole    *)
(* number, as a string that the division converts back                     *)
P4_toFixed0(tenths) == (tenths + 5) \div 10

(* getResources that warns whatever the memory reading *)
P4_getResources_NoThreshold(S, mem) ==
    IF now - S.lastNotify["RESOURCE"] > ThrottleWindow
    THEN [P4_notifyAll(S, Detail("Low memory"), "RESOURCE")
            EXCEPT !.lastNotify["RESOURCE"] = now]
    ELSE S

(* getResources: free and total are the readings rounded to whole MiB, and *)
(* free/total < 0.1 is 10 * free < total                                   *)
P4_getResources(S, mem) ==
    LET free  == P4_toFixed0(mem.free)
        total == P4_toFixed0(mem.total)
    IN IF now - S.lastNotify["RESOURCE"] > ThrottleWindow
       THEN IF 10 * free < total
            THEN [P4_notifyAll(S, Detail("Low memory"), "RESOURCE")
                    EXCEPT !.lastNotify["RESOURCE"] = now]
            ELSE S
       ELSE S

(* GET *: renders the state and the reading of getResources *)
P4_dashboardHandler(S, mem) == P4_getResources(S, mem)

(* POST */control/restart behind requireAuth *)
P4_restartHandler(S) ==
    LET S1 == IF S.botProcess # 0 /\ S.isUp
              THEN kill(P4_notifyAll(S, Detail("Manual restart"), "DOWN"),
                        S.botProcess, "restart")
              ELSE S
    IN setTimeout(S1, "startBot", RestartDelay, Origin("restart", 0, S.isUp))

P4_Init == Boot /\ platforms = <<>>

(* app.listen callback: startBot(); autoUpdate(); *)
P4_Listen ==
    /\ ~listening
    /\ listening' = TRUE
    /\ \E ok \in BOOLEAN :
         Commit(execPull(P4_startBot(Cur, ok, Origin("listen", 0, FALSE)),
                         "auto"))
    /\ event' = <<"listen", "">>
    /\ UNCHANGED now

(* 'exit' event of child i *)
P4_ChildExit ==
    /\ ~ErrorPending
    /\ \E i \in 1..Len(procs), x \in ExitInputs :
         /\ Alive(procs[i])
         /\ x.signal = "SIGTERM" => procs[i].state = "terminating"
         /\ Commit(P4_onExit([Cur EXCEPT !.procs[i].state = "exited"],
                             i, x.code, x.signal))
         /\ event' = <<"exit", x>>
    /\ UNCHANGED <<listening, now>>

(* 'error' event of child i, whose spawn failed *)
P4_ChildError ==
    /\ \E i \in 1..Len(procs), m \in ErrorMessages :
         /\ procs[i].state = "failed"
         /\ Commit(P4_onError([Cur EXCEPT !.procs[i].state = "errored"], m))
         /\ event' = <<"error", m>>
    /\ UNCHANGED <<listening, now>>

(* A timer set by the restart endpoint or by the 'exit' handler fires; the *)
(* second component of event is the callback that set it                   *)
P4_StartTimerFires ==
    /\ ~ErrorPending
    /\ Len(procs) < MaxSpawn
    /\ \E i \in StartTimers, ok \in BOOLEAN :
         /\ timers[i].due <= now
         /\ LET t == timers[i]
            IN /\ Commit(P4_startAndNotify([Cur EXCEPT !.timers = Drop(@, i)],
                                           ok, t.org))
               /\ event' = <<"startTimer", t.org.src>>
    /\ UNCHANGED <<listening, now>>

(* The setInterval(autoUpdate, ...) timer fires and is re-armed *)
P4_IntervalFires ==
    /\ ~ErrorPending
    /\ \E i \in 1..Len(timers) :
         /\ timers[i].fn = "autoUpdate"
         /\ timers[i].due <= now
         /\ Commit(execPull([Cur EXCEPT
                   !.timers = Insert(Drop(@, i),
                                     [timers[i] EXCEPT
                                        !.due = now + UpdateInterval])],
                            "auto"))
    /\ event' = <<"interval", "">>
    /\ UNCHANGED <<listening, now>>

(* A 'git pull' completes *)
P4_AutoPullDone ==
    /\ ~ErrorPending
    /\ pulls.auto > 0
    /\ \E r \in PullResults, ok \in BOOLEAN :
         /\ (r = "changed" /\ ~(botProcess # 0 /\ isUp)) => Len(procs) < MaxSpawn
         /\ Commit(P4_autoUpdateDone([Cur EXCEPT !.pulls.auto = @ - 1], r, ok))
         /\ event' = <<"autoPull", r>>
    /\ UNCHANGED <<listening, now>>

(* POST */control/restart *)
P4_Restart ==
    /\ listening /\ ~ErrorPending
    /\ inputs < MaxInputs
    /\ \E authOk \in BOOLEAN :
         IF authOk
         THEN /\ Commit(P4_restartHandler([Cur EXCEPT !.inputs = @ + 1]))
              /\ event' = <<"restart", "">>
         ELSE /\ Commit(rejected([Cur EXCEPT !.inputs = @ + 1]))
              /\ event' = <<"restart", "401">>
    /\ UNCHANGED <<listening, now>>

(* POST */control/autorestart, a route without requireAuth *)
P4_ToggleAutoRestart ==
    /\ listening /\ ~ErrorPending
    /\ \E on \in BOOLEAN :
         /\ on # autoRestart
         /\ Commit([autorestartHandler(Cur, on) EXCEPT !.calls = calls])
         /\ UNCHANGED event
    /\ UNCHANGED <<listening, now>>

(* GET * *)
P4_Dashboard ==
    /\ listening /\ ~ErrorPending
    /\ inputs < MaxInputs
    /\ \E mem \in P4_MemoryReadings :
         /\ Commit(P4_dashboardHandler([Cur EXCEPT !.inputs = @ + 1], mem))
         /\ event' = <<"dashboard", mem>>
    /\ UNCHANGED <<listening, now>>

P4_Next ==
    \/ P4_Listen
    \/ P4_ChildExit
    \/ P4_ChildError
    \/ P4_StartTimerFires
    \/ P4_IntervalFires
    \/ P4_AutoPullDone
    \/ P4_Restart
    \/ P4_ToggleAutoRestart
    \/ P4_Dashboard
    \/ Idle
    \/ WaitForTimer

P4_Spec == P4_Init /\ [][P4_Next]_vars

(* C22: the dashboard request is read-only: whatever the memory reading,   *)
(* it changes no entry of lastNotify and dispatches no notification.       *)
C22_DashboardReadOnly ==
    [][DashboardStep =>
          /\ lastNotify' = lastNotify
          /\ sentLog' = sentLog
          /\ calls' = <<>>]_vars

----------------------------------------------------------------------------
(***************************************************************************)
(* part_003.  The statements of startBot, of the 'exit' handler, of        *)
(* autoUpdate and of the restart and autorestart endpoints are those of    *)
(* monitor.js; startBot registers no 'error' handler on the child and      *)
(* there is no update endpoint.  An 'error' event emitted on an            *)
(* EventEmitter without a listener for it is thrown; nothing catches it    *)
(* (there is no process.on('uncaughtException')), so Node.js terminates    *)
(* the monitor.                                                            *)
(***************************************************************************)

P3_startBot(S, ok, org) == startBot(S, ok, org)

(* The 'exit' handler of child p *)
P3_onExit(S, p, c, s) == onExit(S, p, c, s)

(* The callback of autoUpdate's pull *)
P3_autoUpdateDone(S, result, ok) == autoUpdateDone(S, result, ok)

(* POST /control/restart behind requireAuth *)
P3_restartHandler(S) == restartHandler(S)

P3_Init == Boot /\ platforms = <<>>

(* app.listen callback: startBot(); autoUpdate(); *)
P3_Listen ==
    /\ ~crashed /\ ~listening
    /\ listening' = TRUE
    /\ \E ok \in BOOLEAN :
         Commit(execPull(P3_startBot(Cur, ok, Origin("listen", 0, FALSE)),
                         "auto"))
    /\ event' = <<"listen", "">>
    /\ UNCHANGED now

(* 'exit' event of child i *)
P3_ChildExit ==
    /\ ~crashed /\ ~ErrorPending
    /\ \E i \in 1..Len(procs), x \in ExitInputs :
         /\ Alive(procs[i])
         /\ x.signal = "SIGTERM" => procs[i].state = "terminating"
         /\ Commit(P3_onExit([Cur EXCEPT !.procs[i].state = "exited"],
                             i, x.code, x.signal))
         /\ event' = <<"exit", x>>
    /\ UNCHANGED <<listening, now>>

(* 'error' event of child i, whose spawn failed: no listener, the error is *)
(* thrown and the process of the monitor ends                              *)
P3_ChildError ==
    /\ ~crashed
    /\ \E i \in 1..Len(procs), m \in ErrorMessages :
         /\ procs[i].state = "failed"
         /\ procs' = [procs EXCEPT ![i].state = "errored"]
         /\ event' = <<"uncaught", m>>
    /\ crashed' = TRUE
    /\ calls' = <<>>
    /\ UNCHANGED <<listening, isUp, botProcess, lastStartTime, lastExitTime,
                   autoRestart, lastNotify, now, timers, pulls, inputs,
                   burst, sentLog, platforms, fanouts, deliveries>>

(* A setTimeout(startBot, ...) timer fires *)
P3_StartTimerFires ==
    /\ ~crashed /\ ~ErrorPending
    /\ Len(procs) < MaxSpawn
    /\ \E i \in StartTimers, ok \in BOOLEAN :
         /\ timers[i].due <= now
         /\ Commit(P3_startBot([Cur EXCEPT !.timers = Drop(@, i)], ok,
                               timers[i].org))
         /\ event' = <<"startTimer", timers[i].org.src>>
    /\ UNCHANGED <<listening, now>>

(* The setInterval(autoUpdate, ...) timer fires and is re-armed *)
P3_IntervalFires ==
    /\ ~crashed /\ ~ErrorPending
    /\ \E i \in 1..Len(timers) :
         /\ timers[i].fn = "autoUpdate"
         /\ timers[i].due <= now
         /\ Commit(execPull([Cur EXCEPT
                   !.timers = Insert(Drop(@, i),
                                     [timers[i] EXCEPT
                                        !.due = now + UpdateInterval])],
                            "auto"))
    /\ event' = <<"interval", "">>
    /\ UNCHANGED <<listening, now>>

(* A 'git pull' completes *)
P3_AutoPullDone ==
    /\ ~crashed /\ ~ErrorPending
    /\ pulls.auto > 0
    /\ \E r \in PullResults, ok \in BOOLEAN :
         /\ (r = "changed" /\ ~(botProcess # 0 /\ isUp)) => Len(procs) < MaxSpawn
         /\ Commit(P3_autoUpdateDone([Cur EXCEPT !.pulls.auto = @ - 1], r, ok))
         /\ event' = <<"autoPull", r>>
    /\ UNCHANGED <<listening, now>>

(* POST /control/restart *)
P3_Restart ==
    /\ ~crashed /\ listening /\ ~ErrorPending
    /\ inputs < MaxInputs
    /\ \E authOk \in BOOLEAN :
         IF authOk
         THEN /\ Commit(P3_restartHandler([Cur EXCEPT !.inputs = @ + 1]))
              /\ event' = <<"restart", "">>
         ELSE /\ Commit(rejected([Cur EXCEPT !.inputs = @ + 1]))
              /\ event' = <<"restart", "401">>
    /\ UNCHANGED <<listening, now>>

(* POST /control/autorestart, a route without requireAuth *)
P3_ToggleAutoRestart ==
    /\ ~crashed /\ listening /\ ~ErrorPending
    /\ \E on \in BOOLEAN :
         /\ on # autoRestart
         /\ Commit([autorestartHandler(Cur, on) EXCEPT !.calls = calls])
         /\ UNCHANGED event
    /\ UNCHANGED <<listening, now>>

(* Time passes while the monitor runs *)
P3_Idle == ~crashed /\ Idle

P3_WaitForTimer == ~crashed /\ WaitForTimer

P3_Next ==
    \/ P3_Listen
    \/ P3_ChildExit
    \/ P3_ChildError
    \/ P3_StartTimerFires
    \/ P3_IntervalFires
    \/ P3_AutoPullDone
    \/ P3_Restart
    \/ P3_ToggleAutoRestart
    \/ P3_Idle
    \/ P3_WaitForTimer

P3_Spec == P3_Init /\ [][P3_Next]_vars

(* C24: a spawn error is not fatal to the supervisor: the state goes to    *)
(* Down, notifyAll is called with kind DOWN, and the supervisor goes on    *)
(* handling restart commands and timers.                                   *)
C24_SpawnErrorNotFatal ==
    [][ErrorStep =>
          /\ ~crashed'
          /\ isUp' = FALSE
          /\ \E j \in 1..Len(calls') : calls'[j].status = "DOWN"]_vars

----------------------------------------------------------------------------
(* The autoRestart flag *)

(* C31: autoRestart is changed only by the handler of POST                 *)
(* /control/autorestart: a step that changes it is that handler, which     *)
(* touches nothing else, so that child start, exit, spawn error, restart,  *)
(* update checks, timers and notifications leave it as it is; and the      *)
(* handler of an exit schedules a start exactly when the flag, as the last *)
(* toggle left it, is on.                                                  *)
C31_OnlyToggleChangesFlag ==
    [][/\ autoRestart' # autoRestart =>
             /\ UNCHANGED <<listening, isUp, botProcess, lastStartTime,
                            lastExitTime, lastNotify, now, timers, procs,
                            pulls, burst, sentLog, fanouts, deliveries>>
             /\ event' = event \/ event' = <<"autorestart", "unauthenticated">>
       /\ ExitStep =>
             /\ autoRestart' = autoRestart
             /\ autoRestart <=> Len(timers') = Len(timers) + 1
             /\ ~autoRestart <=> timers' = timers]_vars

(* The flag was switched on after a child had exited with it off, and the  *)
(* exit of the next child, handled with the flag on, has scheduled a start *)
C31_Witness ==
    /\ event[1] = "exit" /\ autoRestart
    /\ \E i, j \in 1..Len(procs) :
          /\ i < j
          /\ procs[i].state = "exited" /\ procs[j].state = "exited"
          /\ lastExitTime = now
          /\ StartTimers # {}
          /\ \A k \in StartTimers : /\ timers[k].org.src = "exit"
                                    /\ timers[k].org.grp = j
          /\ procs[j].org.src # "exit"

----------------------------------------------------------------------------
(***************************************************************************)
(* The dispatcher under a clock that can be set back.  Date.now() is the   *)
(* time of day of the system, which an administrator or a time service may *)
(* put back between two calls.                                             *)
(***************************************************************************)

(* How far the clock is put back at a time *)
ClockStepBack == ThrottleWindow

(* The clock of the system is put back *)
SetBack ==
    /\ inputs < MaxCalls
    /\ now - ClockStepBack >= 0
    /\ now' = now - ClockStepBack
    /\ Commit([Cur EXCEPT !.inputs = @ + 1])
    /\ event' = <<"setback", "">>
    /\ UNCHANGED listening

ClockNext ==
    \/ Notify
    \/ Settle
    \/ Elapse
    \/ SetBack

ClockSpec == NotifyInit /\ [][ClockNext]_vars

(* C34: for every status kind lastNotify[kind] never decreases, and it is  *)
(* written only inside notifyAll: a step changes it only as one call of    *)
(* notifyAll does, for the kind of the call, to the time of the call.      *)
C34_LastNotifyMonotone ==
    [][\A k \in Kinds :
          /\ lastNotify'[k] >= lastNotify[k]
          /\ lastNotify'[k] # lastNotify[k] =>
                /\ NotifyStep /\ event'[2] = k
                /\ lastNotify'[k] = now
                /\ Len(calls') = 1 /\ calls'[1].status = k /\ calls'[1].sent]_vars

(* A call made after the clock was put back behind the last dispatch of    *)
(* its kind has been dropped, and lastNotify of the kind is ahead of the   *)
(* clock                                                                   *)
C34_Witness ==
    /\ event[1] = "notify" /\ Len(calls) = 1 /\ ~calls[1].sent
    /\ lastNotify[calls[1].status] > now
    /\ lastNotify[calls[1].status] = LastDispatch(calls[1].status)

(* In the monitor as a whole, a step changes lastNotify of a kind only to  *)
(* the time of a notifyAll call of that kind which the step dispatches     *)
StampedByDispatch ==
    [][\A k \in Kinds :
          /\ lastNotify'[k] >= lastNotify[k]
          /\ lastNotify'[k] # lastNotify[k] =>
                /\ lastNotify'[k] = now
                /\ \E j \in 1..Len(calls') :
                      /\ calls'[j].status = k /\ calls'[j].sent
                      /\ calls'[j].at = now]_vars

----------------------------------------------------------------------------
(* Claims about the notifications of part_004 *)

(* The wordings of the notifications that follow startBot() in a timer     *)
(* callback                                                                *)
P4_RestartTags == {"Auto-restarted.", "Manually restarted"}

(* The step is the callback of a timer of the 'exit' handler or of the     *)
(* restart endpoint                                                        *)
P4_TimerStep == event'[1] = "startTimer" /\ Len(timers') < Len(timers)

P4_MaxViews == 5

(* Time between two requests: just under, exactly, just over the window *)
P4_ViewJumps == {ThrottleWindow - 1, ThrottleWindow, ThrottleWindow + 1}

(* GET * *)
P4_View ==
    /\ listening /\ ~ErrorPending
    /\ inputs < P4_MaxViews
    /\ \E mem \in P4_MemoryReadings :
         /\ Commit(P4_dashboardHandler([Cur EXCEPT !.inputs = @ + 1], mem))
         /\ event' = <<"dashboard", mem>>
    /\ UNCHANGED <<listening, now>>

(* Time passes between two requests *)
P4_Elapse ==
    /\ listening /\ ~ErrorPending
    /\ inputs < P4_MaxViews
    /\ \E d \in P4_ViewJumps :
         /\ now + d <= NextDue
         /\ now' = now + d
    /\ Commit([Cur EXCEPT !.inputs = @ + 1])
    /\ event' = <<"none", "">>
    /\ UNCHANGED listening

P4_ViewNext ==
    \/ P4_Listen
    \/ P4_ChildError
    \/ P4_View
    \/ P4_Elapse

P4_ViewSpec == P4_Init /\ [][P4_ViewNext]_vars

(* The reading of a dashboard step, and what the code makes of it *)
ActuallyLow(mem) == 10 * mem.free < mem.total
RoundedLow(mem) == 10 * P4_toFixed0(mem.free) < P4_toFixed0(mem.total)

(* C33 as stated: a GET of the dashboard dispatches a RESOURCE             *)
(* notification at most once per throttle window, and never while the free *)
(* memory is at or above 10 % of the total.                                *)
C33_NoWarningAtOrAboveTenPercent ==
    [][(DashboardStep /\ Dispatches) =>
         /\ sentLog'[Len(sentLog')].status = "RESOURCE"
         /\ now - LastDispatch("RESOURCE") >= ThrottleWindow
         /\ ActuallyLow(event'[2])]_vars

(* C33, amended: a GET of the dashboard dispatches nothing but a RESOURCE  *)
(* notification, more than a throttle window after the previous one, and   *)
(* only while the free memory rounded to whole MiB is below 10 % of the    *)
(* total rounded to whole MiB; the entry is then stamped with the time of  *)
(* the request.                                                            *)
C33_WarningOncePerWindowWhenRoundedLow ==
    [][(DashboardStep /\ Dispatches) =>
         /\ sentLog'[Len(sentLog')].status = "RESOURCE"
         /\ sentLog'[Len(sentLog')].at = now
         /\ now - LastDispatch("RESOURCE") > ThrottleWindow
         /\ RoundedLow(event'[2])
         /\ lastNotify'["RESOURCE"] = now]_vars

(* Two warnings have been dispatched, the second by a request made while   *)
(* the rounded reading was low, more than a window after the first         *)
C33_Witness ==
    /\ event[1] = "dashboard"
    /\ RoundedLow(event[2])
    /\ Len(sentLog) >= 2
    /\ sentLog[Len(sentLog)].status = "RESOURCE"
    /\ sentLog[Len(sentLog) - 1].status = "RESOURCE"
    /\ sentLog[Len(sentLog)].at - sentLog[Len(sentLog) - 1].at > ThrottleWindow
    /\ lastNotify["RESOURCE"] = sentLog[Len(sentLog)].at

(* A request made exactly one window after a warning, with the memory      *)
(* still low, has dispatched nothing                                       *)
C33_WitnessSuppressed ==
    /\ event[1] = "dashboard"
    /\ RoundedLow(event[2])
    /\ Len(sentLog) >= 1
    /\ sentLog[Len(sentLog)].status = "RESOURCE"
    /\ now - sentLog[Len(sentLog)].at = ThrottleWindow

(* A request has dispatched a warning although more than 10 % was free *)
C33_WarnedAboveTenPercent ==
    /\ event[1] = "dashboard"
    /\ ~ActuallyLow(event[2])
    /\ Len(sentLog) >= 1
    /\ sentLog[Len(sentLog)].status = "RESOURCE"
    /\ sentLog[Len(sentLog)].at = now

====
